---- MODULE Spec2Model ----
(***************************************************************************)
(* Model of src/app.py (Project Setup Tool): the presentation thread       *)
(* (create_project and the two signal slots) and the worker threads that   *)
(* execute ProjectSetupApp.run_setup, one statement group per action.      *)
(*                                                                         *)
(* Text is modelled as follows.  A project name is a sequence of           *)
(* characters, so that str.strip() is computed.  A log line is a record    *)
(* [tag, msg]; tag is the literal prefix of the emitted string (the prefix *)
(* OutputHighlighter.highlightBlock tests with startswith).  A file is a   *)
(* record [kind, data]; data is the sequence of pieces the code            *)
(* concatenates.  A command line is the sequence of its words and the     *)
(* whitespace between them.                                                *)
(*                                                                         *)
(* Closing the window ends the process; behaviours of the model are those  *)
(* in which the process keeps running.                                     *)
(***************************************************************************)
EXTENDS Integers, Sequences, FiniteSets, TLC

\* ---------------------------------------------------------------- bounds
\* Worker threads alive at once: a click waits while every slot holds a live thread.
MaxThreads == 2
\* Most whitespace typed before, and after, the name in the name field.
MaxPad == 1
\* A worker emits only while fewer than MaxQueue signals wait for their slots.
MaxQueue == 1

\* ------------------------------------------------------ program constants
BASE_PATH == "D:\\eora"
VSCODE_PATH == "C:\\Program Files\\Microsoft VS Code\\Code.exe"
total_steps == 9

Threads == 1..MaxThreads
\* Texts are sequences of characters; one whitespace character is modelled.
Whitespace == {" "}
Blank(n) == [i \in 1..n |-> " "]
\* The names typed: none, and one name.
Names == {<<>>, <<"a">>}
\* What name_input.text() may return: a name with whitespace around it.
NameInputs == {Blank(i) \o n \o Blank(j) : i \in 0..MaxPad, j \in 0..MaxPad, n \in Names}
\* What type_combo.currentIndex() may return (three items are added).
ComboIndexes == 0..2

VARIABLES
    project_name,   \* self.project_name
    project_type,   \* self.project_type
    create_button,  \* create_button.isEnabled()
    cancel_button,  \* cancel_button.isEnabled()
    output_text,    \* lines shown by the output console
    progress_bar,   \* progress_bar.value()
    queue,          \* signals emitted by workers, not yet delivered to their slots
    fs,             \* the filesystem: path -> [kind, data]
    cwd,            \* the process's current directory (os.chdir)
    pc,             \* per worker: position in run_setup
    project_dir,    \* per worker: local project_dir
    venv_dir,       \* per worker: local venv_dir
    current_step,   \* per worker: local current_step
    exc,            \* per worker: the exception that reached run_setup's handler
    steps,          \* history, per worker: the pipeline steps it has entered, in order
    emitted,        \* history, per worker: the signals it has emitted, in order
    faults,         \* history, per worker: the failures the outside world answered with
    at_abort,       \* history: the filesystem as the latest exception left it
    writers         \* history: widget -> the threads that have written its state

vars == <<project_name, project_type, create_button, cancel_button, output_text,
          progress_bar, queue, fs, cwd, pc, project_dir, venv_dir, current_step,
          exc, steps, emitted, faults, at_abort, writers>>

gui == <<project_name, project_type, create_button, cancel_button, output_text, progress_bar>>

\* ---------------------------------------------------------------- helpers
NoExc == "none"
NoPath == <<>>
START_DIR == <<"cwd-at-launch">>

\* str.lstrip(), str.rstrip().
RECURSIVE lstrip(_)
lstrip(s) == IF s # <<>> /\ Head(s) \in Whitespace THEN lstrip(Tail(s)) ELSE s
RECURSIVE rstrip(_)
rstrip(s) == IF s # <<>> /\ s[Len(s)] \in Whitespace THEN rstrip(SubSeq(s, 1, Len(s) - 1)) ELSE s
\* strip as it would be if it removed nothing.
strip_identity(s) == s
\* str.strip(): leading and trailing whitespace removed.
strip(s) == rstrip(lstrip(s))

\* os.path.join of a directory and one component.
join(dir, name) == Append(dir, name)
\* A relative path resolved against the current directory.
rel(dir, names) == dir \o names
exists(f, p) == p \in DOMAIN f

Dir == [kind |-> "dir", data |-> <<>>]
File(d) == [kind |-> "file", data |-> d]
put(f, p, e) == [q \in (DOMAIN f) \cup {p} |-> IF q = p THEN e ELSE f[q]]

Line(tag, msg) == [tag |-> tag, msg |-> msg]
NoLine == Line("", "")
Out(tag, msg) == [sig |-> "output", line |-> Line(tag, msg), value |-> 0]
Prog(v) == [sig |-> "progress", line |-> NoLine, value |-> v]
\* The percentage as it would be if it were rounded to the nearest integer.
Percent_rounded(k) == (k * 100 + total_steps \div 2) \div total_steps
\* int((current_step / total_steps) * 100): the quotient is cut to an integer;
\* for 0..total_steps steps the floating-point product is nowhere near enough
\* to an integer for its rounding to change the result.
Percent(k) == (k * 100) \div total_steps

wrote(w, thread) == [writers EXCEPT ![w] = @ \cup {thread}]

\* ------------------------------------------------------ generated content
\* A command line: words separated by single-space pieces.  None is the empty
\* command (falsy, as None is in "if command").
None == <<>>
RUN_BASIC == <<"python", " ", "app/main.py">>
RUN_JUPYTER == <<"jupyter", " ", "notebook", " ", "notebooks/analysis.ipynb">>
RUN_UVICORN == <<"uvicorn", " ", "app.main:app", " ", "--reload">>
CMD_UVICORN == <<"uvicorn", " ", "app.main:app", " ", "--host", " ", "0.0.0.0", " ", "--port", " ", "8000">>

\* marker in command: the markers hold no space and no word of the commands
\* passed by the templates holds a marker as a proper part, so the substring
\* test comes to a test of the words.
contains(command, marker) == \E i \in DOMAIN command : command[i] = marker
\* command.split()
RECURSIVE split(_)
split(command) ==
    IF command = <<>> THEN <<>>
    ELSE IF Head(command) \in Whitespace THEN split(Tail(command))
    ELSE <<Head(command)>> \o split(Tail(command))

\* sep.join(items)
RECURSIVE str_join(_, _)
str_join(sep, items) ==
    IF items = <<>> THEN <<>>
    ELSE IF Len(items) = 1 THEN <<items[1]>>
    ELSE <<items[1], sep>> \o str_join(sep, Tail(items))

\* One piece of a written text: a literal with the value substituted into it.
Piece(text, arg) == [text |-> text, arg |-> arg]
Op(path, entry) == [path |-> path, entry |-> entry]

PACKAGES_BASIC == <<"pytest", "pytest-cov", "pytest-mock", "pytest-xdist", "pytest-asyncio", "pytest-profiling">>
PACKAGES_DATA == <<"jupyter", "pytest", "pytest-cov", "pytest-mock", "pytest-xdist", "pytest-asyncio", "pytest-profiling">>
PACKAGES_FASTAPI == <<"fastapi", "uvicorn", "pytest", "pytest-cov", "pytest-mock", "pytest-xdist", "pytest-asyncio", "pytest-profiling", "httpx">>

\* create_requirements as it would be without the final newline.
requirements_joined_only(packages) == <<Op(<<"requirements.txt">>, File(str_join("\n", packages)))>>
\* create_requirements: "\n".join(packages) + "\n"
create_requirements(packages) ==
    <<Op(<<"requirements.txt">>, File(str_join("\n", packages) \o <<"\n">>))>>

\* create_readme as it would be if it did not look at run_command.
readme_run_line_no_scan(name, run_command) == Piece("docker run --rm {project_name}", name)
\* create_readme: the docker-run line is chosen by scanning run_command.
readme_run_line(name, run_command) ==
    IF contains(run_command, "uvicorn") THEN Piece("docker run -p 8000:8000 {project_name}", name)
    ELSE IF contains(run_command, "jupyter") THEN Piece("docker run -p 8888:8888 {project_name}", name)
    ELSE Piece("docker run --rm {project_name}", name)
create_readme(name, run_command) ==
    <<Op(<<"README.md">>, File(<<
        Piece("# {project_name}", name),
        Piece("## How to Run", <<>>),
        Piece("{run_command}", run_command),
        Piece("## How to Run Tests", <<>>),
        Piece("pytest", <<>>),
        Piece("## Docker Usage", <<>>),
        Piece("### Build Docker Image", <<>>),
        Piece("docker build -t {project_name} .", name),
        Piece("### Run Docker Container", <<>>),
        readme_run_line(name, run_command),
        Piece("## Docker Compose Usage", <<>>),
        Piece("docker-compose up --build", <<>>) >>))>>

\* create_docker_files: Dockerfile, then docker-compose.yml.
create_docker_files(command, is_data_project, is_fastapi) ==
    IF is_data_project THEN
        <<Op(<<"Dockerfile">>, File(<<
              Piece("FROM jupyter/base-notebook:python-3.11.6", <<>>),
              Piece("COPY notebooks/ /home/jovyan/work/", <<>>) >>)),
          Op(<<"docker-compose.yml">>, File(<<
              Piece("services:", <<>>),
              Piece("  jupyter:", <<>>),
              Piece("    build: .", <<>>),
              Piece("    ports:", <<>>),
              Piece("      - 8888:8888", <<>>),
              Piece("    volumes:", <<>>),
              Piece("      - ./notebooks:/home/jovyan/work", <<>>) >>))>>
    ELSE
        <<Op(<<"Dockerfile">>, File(<<
              Piece("FROM python:3.9-slim", <<>>),
              Piece("WORKDIR /app", <<>>),
              Piece("COPY requirements.txt .", <<>>),
              Piece("RUN pip install --no-cache-dir -r requirements.txt", <<>>),
              Piece("COPY . .", <<>>),
              IF command # None THEN Piece("CMD [{args}]", split(command))
              ELSE Piece("CMD [{args}]", <<"python", "app/main.py">>) >>)),
          Op(<<"docker-compose.yml">>, File(
              << Piece("services:", <<>>), Piece("  app:", <<>>), Piece("    build: .", <<>>) >>
              \o (IF is_fastapi THEN << Piece("    ports:", <<>>), Piece("      - 8000:8000", <<>>) >> ELSE <<>>)
              \o << Piece("    command: {command}", command) >>))>>

\* The writes of each template, in the order the code performs them.
setup_basic_python_project(name) ==
    << Op(<<"app">>, Dir), Op(<<"tests">>, Dir),
       Op(<<"app", "main.py">>, File(<<Piece("print(Hello, World!)", <<>>)>>)),
       Op(<<"tests", "test_basic.py">>, File(<<Piece("def test_true(): assert True", <<>>)>>)) >>
    \o create_readme(name, RUN_BASIC)
    \o create_docker_files(RUN_BASIC, FALSE, FALSE)
    \o create_requirements(PACKAGES_BASIC)

setup_data_analytics_project(name) ==
    << Op(<<"notebooks">>, Dir), Op(<<"tests">>, Dir),
       Op(<<"notebooks", "analysis.ipynb">>, File(<<Piece("notebook: one code cell print(Hello, World!)", <<>>)>>)),
       Op(<<"tests", "test_notebook.py">>, File(<<Piece("def test_true(): assert True", <<>>)>>)) >>
    \o create_readme(name, RUN_JUPYTER)
    \o create_docker_files(None, TRUE, FALSE)
    \o create_requirements(PACKAGES_DATA)

setup_fastapi_project(name) ==
    << Op(<<"app">>, Dir), Op(<<"tests">>, Dir),
       Op(<<"app", "main.py">>, File(<<Piece("FastAPI app, GET / returns Hello World", <<>>)>>)),
       Op(<<"tests", "test_app.py">>, File(<<Piece("async test of GET / with httpx AsyncClient", <<>>)>>)) >>
    \o create_readme(name, RUN_UVICORN)
    \o create_docker_files(CMD_UVICORN, FALSE, TRUE)
    \o create_requirements(PACKAGES_FASTAPI)

\* The filesystem after the first k writes of ops, relative to directory dir.
RECURSIVE apply(_, _, _, _)
apply(f, dir, ops, k) ==
    IF k = 0 THEN f
    ELSE put(apply(f, dir, ops, k - 1), rel(dir, ops[k].path), ops[k].entry)

\* ------------------------------------------------------------ environment
\* What the outside world may answer to each external call.
HttpStatus == {200, 404}
Template(type, name) ==
    IF type = 1 THEN setup_basic_python_project(name)
    ELSE IF type = 2 THEN setup_data_analytics_project(name)
    ELSE setup_fastapi_project(name)

\* ------------------------------------------------------------------- Init
Init ==
    /\ project_name = <<>>
    /\ project_type = 0
    /\ create_button = TRUE
    /\ cancel_button = TRUE
    /\ output_text = <<>>
    /\ progress_bar = 0
    /\ queue = <<>>
    /\ fs = [p \in {<<BASE_PATH>>} |-> Dir]
    /\ cwd = START_DIR
    /\ pc = [w \in Threads |-> "idle"]
    /\ project_dir = [w \in Threads |-> NoPath]
    /\ venv_dir = [w \in Threads |-> NoPath]
    /\ current_step = [w \in Threads |-> 0]
    /\ exc = [w \in Threads |-> NoExc]
    /\ steps = [w \in Threads |-> <<>>]
    /\ emitted = [w \in Threads |-> <<>>]
    /\ faults = [w \in Threads |-> <<>>]
    /\ at_abort = fs
    /\ writers = [b \in {"create_button", "cancel_button", "output_text", "progress_bar"} |-> {}]

\* A slot holds a live thread from Thread.start() until run_setup returns.
alive(w) == pc[w] # "idle"

\* ------------------------------------------------- presentation thread
\* Lines 157-161 as they would be if the buttons were left enabled.
disable_buttons_not ==
    /\ UNCHANGED <<create_button, cancel_button>>
    /\ writers' = [writers EXCEPT !["progress_bar"] = @ \cup {"gui"},
                                  !["output_text"] = @ \cup {"gui"}]
\* create_project, lines 157-161: the buttons are disabled before the worker is started.
disable_buttons ==
    /\ create_button' = FALSE
    /\ cancel_button' = FALSE
    /\ writers' = [writers EXCEPT !["create_button"] = @ \cup {"gui"},
                                  !["cancel_button"] = @ \cup {"gui"},
                                  !["progress_bar"] = @ \cup {"gui"},
                                  !["output_text"] = @ \cup {"gui"}]

\* create_project: the slot of create_button.clicked; a disabled button emits no
\* click.  The event loop hands the presentation thread its events in order, so
\* the signals queued before the click have reached their slots.
create_project(text, index) ==
    /\ create_button
    /\ queue = <<>>
    /\ project_name' = strip(text)
    /\ project_type' = index + 1
    /\ IF project_name' = <<>>
       THEN \* QMessageBox.warning, return
            UNCHANGED <<create_button, cancel_button, output_text, progress_bar, queue, fs, cwd,
                        pc, project_dir, venv_dir, current_step, exc, steps, emitted, faults,
                        at_abort, writers>>
       ELSE \E w \in Threads :
            /\ ~alive(w)
            /\ \A v \in Threads : ~alive(v) => w <= v
            /\ disable_buttons
            /\ progress_bar' = 0
            /\ output_text' = <<>>
            \* threading.Thread(target=self.run_setup, daemon=True).start()
            /\ pc' = [pc EXCEPT ![w] = "validate"]
            /\ UNCHANGED <<queue, fs, cwd, project_dir, venv_dir, current_step, exc, steps, emitted,
                           faults, at_abort>>

\* append_output / update_progress: the slots, run by the presentation thread
\* for each signal a worker has emitted.
deliver ==
    /\ queue # <<>>
    /\ IF Head(queue).sig = "output"
       THEN /\ output_text' = Append(output_text, Head(queue).line)
            /\ writers' = wrote("output_text", "gui")
            /\ UNCHANGED progress_bar
       ELSE /\ progress_bar' = Head(queue).value
            /\ writers' = wrote("progress_bar", "gui")
            /\ UNCHANGED output_text
    /\ queue' = Tail(queue)
    /\ UNCHANGED <<project_name, project_type, create_button, cancel_button, fs, cwd,
                   pc, project_dir, venv_dir, current_step, exc, steps, emitted, faults, at_abort>>

\* ---------------------------------------------------------- worker thread
\* signal.emit from the worker: queued for the presentation thread.
emit(w, sigs) ==
    /\ Len(queue) < MaxQueue
    /\ queue' = queue \o sigs
    /\ emitted' = [emitted EXCEPT ![w] = @ \o sigs]
enter(w, step) == steps' = [steps EXCEPT ![w] = Append(@, step)]
goto(w, label) == pc' = [pc EXCEPT ![w] = label]
\* An exception leaves the try block, the filesystem being f: control passes to
\* "except Exception as e".
raise(w, e, f) ==
    /\ pc' = [pc EXCEPT ![w] = "except"]
    /\ exc' = [exc EXCEPT ![w] = e]
    /\ fs' = f
    /\ at_abort' = f
    /\ UNCHANGED <<current_step, queue, emitted>>
\* The outside world answered step with error.
fault(w, step, error) == faults' = [faults EXCEPT ![w] = Append(@, [step |-> step, error |-> error])]
\* current_step += 1; progress_signal.emit(int((current_step / total_steps) * 100))
advance(w, sigs) ==
    /\ current_step' = [current_step EXCEPT ![w] = @ + 1]
    /\ emit(w, sigs \o <<Prog(Percent(current_step[w] + 1))>>)
\* The step is over and the next one is label, the filesystem being f.
proceed(w, label, f) ==
    /\ goto(w, label)
    /\ fs' = f
    /\ UNCHANGED <<exc, at_abort>>

\* run_setup, lines 169-175: the locals, then the check that the directory is new.
validate(w) ==
    /\ pc[w] = "validate"
    /\ enter(w, "Validator")
    /\ project_dir' = [project_dir EXCEPT ![w] = join(<<BASE_PATH>>, project_name)]
    /\ IF exists(fs, project_dir'[w])
       THEN raise(w, "FileExistsError", fs)
       ELSE proceed(w, "makedirs", fs) /\ UNCHANGED <<current_step, queue, emitted>>
    /\ UNCHANGED <<gui, cwd, venv_dir, faults, writers>>

\* run_setup, lines 177-181: os.makedirs, os.chdir.
makedirs(w, ok) ==
    /\ pc[w] = "makedirs"
    /\ enter(w, "Scaffolder")
    /\ IF ok /\ ~exists(fs, project_dir[w])
       THEN /\ cwd' = project_dir[w]
            /\ advance(w, <<Out("SUCCESS", "Created project directory")>>)
            /\ proceed(w, "venv", put(fs, project_dir[w], Dir))
            /\ UNCHANGED faults
       ELSE /\ fault(w, "Scaffolder", "OSError")
            /\ raise(w, "OSError", fs)
            /\ UNCHANGED cwd
    /\ UNCHANGED <<gui, project_dir, venv_dir, writers>>

\* run_setup, lines 184-188: venv.create; a failure may leave the directory behind.
create_venv(w, outcome) ==
    /\ pc[w] = "venv"
    /\ enter(w, "Scaffolder.venv")
    /\ venv_dir' = [venv_dir EXCEPT ![w] = join(project_dir[w], ".venv")]
    /\ IF outcome = "ok"
       THEN /\ advance(w, <<Out("SUCCESS", "Virtual environment created.")>>)
            /\ proceed(w, "gitignore", put(fs, venv_dir'[w], Dir))
            /\ UNCHANGED faults
       ELSE /\ fault(w, "Scaffolder.venv", "EnvironmentCreationError")
            /\ raise(w, "EnvironmentCreationError",
                     IF outcome = "fails" THEN fs ELSE put(fs, venv_dir'[w], Dir))
    /\ UNCHANGED <<gui, cwd, project_dir, writers>>

\* Line 246 as it would be if every answer were taken for a success.
status_ok_any(status) == TRUE
\* download_gitignore, line 246: the test of the answer.
status_ok(status) == status = 200

\* run_setup, lines 191-193, with download_gitignore; status 0 stands for a
\* request that raised instead of answering.
download_gitignore(w, status, written) ==
    /\ pc[w] = "gitignore"
    /\ enter(w, "AssetFetcher")
    /\ faults' = [faults EXCEPT ![w] =
            IF status = 0 THEN Append(@, [step |-> "AssetFetcher", error |-> "ConnectionError"])
            ELSE IF status # 200 THEN Append(@, [step |-> "AssetFetcher", error |-> "HTTP status"])
            ELSE IF ~written THEN Append(@, [step |-> "AssetFetcher", error |-> "OSError"])
            ELSE @]
    /\ IF status = 0 THEN raise(w, "ConnectionError", fs)
       ELSE IF status_ok(status) THEN
            IF written
            THEN /\ advance(w, <<Out("SUCCESS", ".gitignore file downloaded.")>>)
                 /\ proceed(w, "git", put(fs, rel(cwd, <<".gitignore">>), File(<<Piece("{response.text}", <<>>)>>)))
            ELSE raise(w, "OSError", fs)
       ELSE raise(w, "Exception", fs)
    /\ UNCHANGED <<gui, cwd, project_dir, venv_dir, writers>>

\* run_setup, lines 196-198, with init_git: subprocess.run(check=True).
init_git(w, outcome) ==
    /\ pc[w] = "git"
    /\ enter(w, "VcsInitializer")
    /\ IF outcome = "ok"
       THEN /\ advance(w, <<Out("SUCCESS", "Git repository initialized.")>>)
            /\ proceed(w, "ruff", put(fs, rel(cwd, <<".git">>), Dir))
            /\ UNCHANGED faults
       ELSE /\ fault(w, "VcsInitializer", outcome)
            /\ raise(w, outcome, fs)
    /\ UNCHANGED <<gui, cwd, project_dir, venv_dir, writers>>

\* run_setup, lines 201-203, with create_ruff_config.
create_ruff_config(w, ok) ==
    /\ pc[w] = "ruff"
    /\ enter(w, "LintConfigWriter")
    /\ IF ok
       THEN /\ advance(w, <<Out("SUCCESS", "ruff.toml file created.")>>)
            /\ proceed(w, "template", put(fs, rel(cwd, <<"ruff.toml">>),
                                          File(<<Piece("[tool.ruff] line-length = 88 ...", <<>>)>>)))
            /\ UNCHANGED faults
       ELSE /\ fault(w, "LintConfigWriter", "OSError")
            /\ raise(w, "OSError", fs)
    /\ UNCHANGED <<gui, cwd, project_dir, venv_dir, writers>>

\* run_setup, lines 206-215, with the setup_*_project of the type: the first k
\* writes succeed; k short of all of them means the next write raised.
setup_project(w, k) ==
    /\ pc[w] = "template"
    /\ enter(w, "TemplateGenerator")
    /\ IF project_type \in 1..3
       THEN LET ops == Template(project_type, project_name) IN
            /\ k <= Len(ops)
            /\ IF k = Len(ops)
               THEN /\ advance(w, <<Out("SUCCESS", "project set up.")>>)
                    /\ proceed(w, "vscode", apply(fs, cwd, ops, k))
                    /\ UNCHANGED faults
               ELSE /\ fault(w, "TemplateGenerator", "OSError")
                    /\ raise(w, "OSError", apply(fs, cwd, ops, k))
       ELSE /\ k = 0
            /\ raise(w, "ValueError", fs)
            /\ UNCHANGED faults
    /\ UNCHANGED <<gui, cwd, project_dir, venv_dir, writers>>

\* setup_vscode as it would be if it caught its own errors.
setup_vscode_swallowed(ok) == NoExc
\* setup_vscode has no handler of its own: what a failed write raises.
setup_vscode_raises(ok) == IF ok THEN NoExc ELSE "OSError"

\* run_setup, lines 218-221, with setup_vscode: .vscode is made, then
\* settings.json is written; made tells whether the failure came after makedirs.
setup_vscode(w, ok, made) ==
    /\ pc[w] = "vscode"
    /\ enter(w, "EditorConfigWriter")
    /\ (ok => made)
    /\ faults' = [faults EXCEPT ![w] =
            IF ok THEN @ ELSE Append(@, [step |-> "EditorConfigWriter", error |-> "OSError"])]
    /\ LET f1 == IF made THEN put(fs, rel(cwd, <<".vscode">>), Dir) ELSE fs
           f2 == IF ok THEN put(f1, rel(cwd, <<".vscode", "settings.json">>), File(<<Piece("{settings}", <<>>)>>))
                 ELSE f1
       IN IF setup_vscode_raises(ok) = NoExc
          THEN /\ advance(w, <<Out("SUCCESS", "VS Code settings configured.")>>)
               /\ proceed(w, "install", f2)
          ELSE raise(w, setup_vscode_raises(ok), f2)
    /\ UNCHANGED <<gui, cwd, project_dir, venv_dir, writers>>

\* install_dependencies as it would be without its handler.
install_catches_nothing(e) == FALSE
\* install_dependencies, line 464: the exceptions its handler catches.
install_catches(e) == e = "CalledProcessError"

\* run_setup, lines 224-226, with install_dependencies.
install_dependencies(w, outcome) ==
    /\ pc[w] = "install"
    /\ enter(w, "DependencyInstaller")
    /\ faults' = [faults EXCEPT ![w] =
            IF outcome = "ok" THEN @ ELSE Append(@, [step |-> "DependencyInstaller", error |-> outcome])]
    /\ IF outcome = "ok"
       THEN /\ advance(w, <<Out("INFO", "Installing dependencies..."),
                            Out("SUCCESS", "Dependencies installed.")>>)
            /\ proceed(w, "open", fs)
       ELSE IF install_catches(outcome)
       THEN /\ advance(w, <<Out("INFO", "Installing dependencies..."),
                            Out("ERROR", "Failed to install dependencies: {e}")>>)
            /\ proceed(w, "open", fs)
       ELSE /\ emit(w, <<Out("INFO", "Installing dependencies...")>>)
            /\ pc' = [pc EXCEPT ![w] = "except"]
            /\ exc' = [exc EXCEPT ![w] = outcome]
            /\ at_abort' = fs
            /\ UNCHANGED <<fs, current_step>>
    /\ UNCHANGED <<gui, cwd, project_dir, venv_dir, writers>>

\* open_in_vscode as it would be without its second handler.
open_catches_missing_only(e) == e = "FileNotFoundError"
\* open_in_vscode, lines 489-492: the exceptions its handlers catch.
open_catches(e) == e \in {"FileNotFoundError", "CalledProcessError"}

\* run_setup, lines 229-231, with open_in_vscode.
open_in_vscode(w, outcome) ==
    /\ pc[w] = "open"
    /\ enter(w, "EditorLauncher")
    /\ faults' = [faults EXCEPT ![w] =
            IF outcome = "ok" THEN @ ELSE Append(@, [step |-> "EditorLauncher", error |-> outcome])]
    /\ IF outcome = "ok" \/ open_catches(outcome)
       THEN /\ current_step' = [current_step EXCEPT ![w] = @ + 1]
            /\ emit(w, << IF outcome = "ok" THEN Out("SUCCESS", "Project opened in VS Code.")
                          ELSE IF outcome = "FileNotFoundError"
                          THEN Out("ERROR", "Could not find VS Code. Ensure that the path is correct.")
                          ELSE Out("ERROR", "Failed to open VS Code: {e}"),
                          Prog(100) >>)
            /\ proceed(w, "enable_create", fs)
       ELSE raise(w, outcome, fs)
    /\ UNCHANGED <<gui, cwd, project_dir, venv_dir, writers>>

\* The run is over: the one statement left to the thread uses none of its
\* locals, which are dropped here together with the run's history.
run_over(w) ==
    /\ project_dir' = [project_dir EXCEPT ![w] = NoPath]
    /\ venv_dir' = [venv_dir EXCEPT ![w] = NoPath]
    /\ current_step' = [current_step EXCEPT ![w] = 0]
    /\ exc' = [exc EXCEPT ![w] = NoExc]
    /\ steps' = [steps EXCEPT ![w] = <<>>]
    /\ emitted' = [emitted EXCEPT ![w] = <<>>]
    /\ faults' = [faults EXCEPT ![w] = <<>>]
locals == <<project_dir, venv_dir, current_step, exc, steps, emitted, faults>>

\* run_setup, line 234: the worker thread sets the widget's state itself.
enable_create(w) ==
    /\ pc[w] = "enable_create"
    /\ create_button' = TRUE
    /\ writers' = wrote("create_button", "worker")
    /\ goto(w, "enable_cancel")
    /\ run_over(w)
    /\ UNCHANGED <<project_name, project_type, cancel_button, output_text, progress_bar, queue,
                   fs, cwd, at_abort>>

\* run_setup, line 235; run_setup returns and the thread ends.
enable_cancel(w) ==
    /\ pc[w] = "enable_cancel"
    /\ cancel_button' = TRUE
    /\ writers' = wrote("cancel_button", "worker")
    /\ goto(w, "idle")
    /\ UNCHANGED <<project_name, project_type, create_button, output_text, progress_bar, queue,
                   fs, cwd, at_abort, locals>>

\* The handler as it would be if it removed the project directory.
rollback(f, dir) ==
    [p \in {q \in DOMAIN f : dir = NoPath \/ Len(q) < Len(dir) \/ SubSeq(q, 1, Len(dir)) # dir} |-> f[p]]
\* What the handler of run_setup does to the filesystem: nothing.
no_rollback(f, dir) == f

\* run_setup, line 238: except Exception as e: output_signal.emit(f"ERROR: {e}")
except(w) ==
    /\ pc[w] = "except"
    /\ emit(w, <<Out("ERROR", exc[w])>>)
    /\ fs' = no_rollback(fs, project_dir[w])
    /\ goto(w, "except_create")
    /\ UNCHANGED <<gui, cwd, project_dir, venv_dir, current_step, exc, steps, faults, at_abort, writers>>

\* run_setup, line 239 as it would be without the statement.
except_create_skipped(w) ==
    /\ pc[w] = "except_create"
    /\ goto(w, "except_cancel")
    /\ run_over(w)
    /\ UNCHANGED <<gui, queue, fs, cwd, at_abort, writers>>
\* run_setup, line 239.
except_create(w) ==
    /\ pc[w] = "except_create"
    /\ create_button' = TRUE
    /\ writers' = wrote("create_button", "worker")
    /\ goto(w, "except_cancel")
    /\ run_over(w)
    /\ UNCHANGED <<project_name, project_type, cancel_button, output_text, progress_bar, queue,
                   fs, cwd, at_abort>>

\* run_setup, line 240; run_setup returns and the thread ends.
except_cancel(w) ==
    /\ pc[w] = "except_cancel"
    /\ cancel_button' = TRUE
    /\ writers' = wrote("cancel_button", "worker")
    /\ goto(w, "idle")
    /\ UNCHANGED <<project_name, project_type, create_button, output_text, progress_bar, queue,
                   fs, cwd, at_abort, locals>>

\* ------------------------------------------------------------ specification
Click == \E text \in NameInputs, index \in ComboIndexes : create_project(text, index)
Deliver == deliver
Validate(w) == validate(w)
Makedirs(w) == \E ok \in BOOLEAN : makedirs(w, ok)
CreateVenv(w) == \E outcome \in {"ok", "fails", "fails_midway"} : create_venv(w, outcome)
DownloadGitignore(w) == \E status \in HttpStatus \cup {0}, written \in BOOLEAN : download_gitignore(w, status, written)
InitGit(w) == \E outcome \in {"ok", "CalledProcessError", "FileNotFoundError"} : init_git(w, outcome)
CreateRuffConfig(w) == \E ok \in BOOLEAN : create_ruff_config(w, ok)
SetupProject(w) == \E k \in 0..Len(setup_fastapi_project(<<>>)) : setup_project(w, k)
SetupVscode(w) == \E ok \in BOOLEAN, made \in BOOLEAN : setup_vscode(w, ok, made)
InstallDependencies(w) == \E outcome \in {"ok", "CalledProcessError", "FileNotFoundError"} : install_dependencies(w, outcome)
OpenInVscode(w) == \E outcome \in {"ok", "FileNotFoundError", "CalledProcessError", "PermissionError"} : open_in_vscode(w, outcome)

\* One step of worker thread w.
run_setup(w) ==
    \/ Validate(w) \/ Makedirs(w) \/ CreateVenv(w) \/ DownloadGitignore(w) \/ InitGit(w)
    \/ CreateRuffConfig(w) \/ SetupProject(w) \/ SetupVscode(w) \/ InstallDependencies(w)
    \/ OpenInVscode(w) \/ enable_create(w) \/ enable_cancel(w)
    \/ except(w) \/ except_create(w) \/ except_cancel(w)

Next == Click \/ Deliver \/ \E w \in Threads : run_setup(w)

Spec == Init /\ [][Next]_vars

\* Every live thread is scheduled and the event loop keeps running.
FairSpec == Spec /\ WF_vars(Deliver) /\ \A w \in Threads : WF_vars(run_setup(w))

\* ------------------------------------------------------------------ claims
\* The pipeline's steps in their fixed order (the Scaffolder has two parts).
Order == <<"Validator", "Scaffolder", "Scaffolder.venv", "AssetFetcher", "VcsInitializer",
           "LintConfigWriter", "TemplateGenerator", "EditorConfigWriter", "DependencyInstaller",
           "EditorLauncher">>
FatalSteps == {"Scaffolder", "Scaffolder.venv", "AssetFetcher", "VcsInitializer",
               "LintConfigWriter", "TemplateGenerator"}
Last(q) == q[Len(q)]
\* The handler of run_setup has been entered / has emitted its line.
Aborting(w) == pc[w] \in {"except", "except_create"}
Aborted(w) == pc[w] = "except_create"
\* Line 231 is behind the worker: all nine steps were attempted.
Completed(w) == pc[w] = "enable_create"
ErrorLines(w) == {i \in DOMAIN emitted[w] : emitted[w][i].sig = "output" /\ emitted[w][i].line.tag = "ERROR"}
HasFault(w, step, errors) == \E i \in DOMAIN faults[w] : faults[w][i].step = step /\ faults[w][i].error \in errors
AnyError == {"OSError", "EnvironmentCreationError", "ConnectionError", "HTTP status",
             "CalledProcessError", "FileNotFoundError", "PermissionError"}

\* C1: a failure in a fatal step (directory or environment creation, the
\* .gitignore download with any answer but 200, git init, the ruff file, the
\* template) aborts the run at once: the failed step is the last step entered,
\* the steps entered are a prefix of the fixed order, the handler is entered, and
\* once it has run its last emitted signal is an ERROR line.
C1_FatalFailureAborts ==
    \A w \in Threads : \A s \in FatalSteps :
        HasFault(w, s, AnyError) =>
            /\ Aborting(w)
            /\ Last(steps[w]) = s
            /\ steps[w] = SubSeq(Order, 1, Len(steps[w]))
            /\ Aborted(w) => /\ emitted[w] # <<>>
                             /\ Last(emitted[w]).sig = "output"
                             /\ Last(emitted[w]).line.tag = "ERROR"
\* A run that got status 404 has aborted and has emitted its ERROR line.
C1_Witness ==
    \E w \in Threads : HasFault(w, "AssetFetcher", {"HTTP status"}) /\ Aborted(w)

C3_InstallFailureContinues ==
    \A w \in Threads :
        HasFault(w, "DependencyInstaller", {"CalledProcessError"}) =>
            /\ ErrorLines(w) # {}
            /\ \E i \in ErrorLines(w) : emitted[w][i].line.msg = "Failed to install dependencies: {e}"
            /\ exc[w] # "CalledProcessError"
            /\ pc[w] = "open" \/ Last(steps[w]) = "EditorLauncher"
C3_Witness ==
    \E w \in Threads :
        /\ HasFault(w, "DependencyInstaller", {"CalledProcessError"})
        /\ Last(steps[w]) = "EditorLauncher"

\* C4: a missing editor binary and a non-zero exit of the editor are both caught
\* and logged as an ERROR line: the run is Completed, not aborted, its last two
\* signals are that ERROR line and progress 100, and the buttons are re-enabled
\* by lines 234-235.
C4_EditorFailureCaught ==
    \A w \in Threads :
        HasFault(w, "EditorLauncher", {"FileNotFoundError", "CalledProcessError"}) =>
            /\ Completed(w)
            /\ exc[w] = NoExc
            /\ Len(emitted[w]) >= 2
            /\ Last(emitted[w]) = Prog(100)
            /\ emitted[w][Len(emitted[w]) - 1].line.tag = "ERROR"
C4_Witness ==
    \E w \in Threads : HasFault(w, "EditorLauncher", {"CalledProcessError"}) /\ Completed(w)

\* A text that is empty or holds whitespace only.
IsBlank(text) == \A i \in DOMAIN text : text[i] \in Whitespace
\* The step taken is a step of worker w.
Moves(w) == pc'[w] # pc[w]

\* C5: validation comes before any mutation.  A click with an empty or
\* whitespace-only name changes no file and starts no worker; a worker whose
\* directory <BASE_PATH>/<name> exists raises FileExistsError at the check,
\* and from then on enters no further step and changes no file.
C5_ValidationBeforeMutation ==
    [][ /\ \A text \in NameInputs, index \in ComboIndexes :
              (IsBlank(text) /\ create_project(text, index)) =>
                  fs' = fs /\ cwd' = cwd /\ pc' = pc /\ steps' = steps
        /\ \A w \in Threads :
              (pc[w] = "validate" /\ Moves(w) /\ exists(fs, join(<<BASE_PATH>>, project_name))) =>
                  exc'[w] = "FileExistsError" /\ steps'[w] = <<"Validator">> /\ fs' = fs /\ cwd' = cwd
        /\ \A w \in Threads :
              (exc[w] = "FileExistsError" /\ Moves(w)) =>
                  fs' = fs /\ cwd' = cwd /\ steps'[w] \in {<<"Validator">>, <<>>}
      ]_vars
\* A run rejected for its existing directory has emitted its ERROR line, having
\* entered the Validator alone.
C5_Witness ==
    \E w \in Threads :
        /\ exc[w] = "FileExistsError" /\ Aborted(w)
        /\ exists(fs, project_dir[w])
        /\ steps[w] = <<"Validator">>

\* The positions of run_setup before the statement that re-enables create_button.
Executing(w) == pc[w] \notin {"idle", "enable_cancel", "except_cancel"}

\* C6: at most one run is executing at any time: no worker is started while
\* another has not yet finished its last step (and re-enabled the trigger).
C6_OneRunAtATime ==
    /\ Cardinality({w \in Threads : Executing(w)}) <= 1
    /\ (\E w \in Threads : Executing(w)) => ~create_button
\* Two threads are alive: one run is executing while the thread of the run
\* before it has still to execute its last statement.
C6_Witness ==
    \E v, w \in Threads : v # w /\ pc[v] \in {"enable_cancel", "except_cancel"} /\ pc[w] = "template"

\* C7: every started run reaches the end of run_setup, and whenever no run is
\* left alive both controls are enabled.
C7_TerminatesAndReenables ==
    /\ \A w \in Threads : []<>(~alive(w))
    /\ []((\A w \in Threads : ~alive(w)) => (create_button /\ cancel_button))
\* An aborted run is over, its ERROR line is on the console, both controls are enabled.
C7_Witness ==
    /\ \A w \in Threads : ~alive(w)
    /\ create_button /\ cancel_button
    /\ output_text # <<>> /\ Last(output_text).tag = "ERROR"
    /\ progress_bar = Percent(6)

\* C8: the worker touches presentation state only through the two signals: the
\* state of every widget is written by the presentation thread alone.
C8_WorkerNeverWritesWidgets ==
    \A b \in DOMAIN writers : writers[b] \subseteq {"gui"}

\* C9: aborting rolls nothing back.  The handler changes no file; every
\* directory and file an exception left behind is still there, unchanged, ever
\* after; and a later run whose directory is among them raises FileExistsError
\* at its check, before it creates or writes anything.
C9_NoRollback ==
    [][ /\ \A w \in Threads : (Aborting(w) /\ Moves(w)) => fs' = fs
        /\ \A p \in DOMAIN at_abort : exists(fs', p) /\ fs'[p] = at_abort[p]
        /\ \A w \in Threads :
              (pc[w] = "validate" /\ Moves(w) /\ exists(at_abort, join(<<BASE_PATH>>, project_name))) =>
                  exc'[w] = "FileExistsError" /\ fs' = fs
      ]_vars
\* A run is rejected for a directory that an earlier run, aborted in the middle
\* of its template, left behind with a README and no requirements.txt.
C9_Witness ==
    \E w \in Threads :
        /\ exc[w] = "FileExistsError" /\ Aborted(w)
        /\ exists(fs, rel(project_dir[w], <<"README.md">>))
        /\ ~exists(fs, rel(project_dir[w], <<"requirements.txt">>))

\* C10: the lines of a requirements.txt.
SIX == <<"pytest", "pytest-cov", "pytest-mock", "pytest-xdist", "pytest-asyncio", "pytest-profiling">>
Range(q) == {q[i] : i \in DOMAIN q}
\* data is one name per line, each line ended by a newline.
WellFormed(data) ==
    /\ Len(data) % 2 = 0
    /\ \A i \in DOMAIN data : (i % 2 = 0) <=> (data[i] = "\n")
NamesOf(data) == [i \in 1..(Len(data) \div 2) |-> data[2 * i - 1]]
RECURSIVE Only(_, _)
Only(q, S) == IF q = <<>> THEN <<>>
              ELSE IF Head(q) \in S THEN <<Head(q)>> \o Only(Tail(q), S) ELSE Only(Tail(q), S)
RequirementsOf(w) == fs[rel(project_dir[w], <<"requirements.txt">>)].data

\* C10: once the template of a run is generated, its requirements.txt holds one
\* name per line, newline-terminated, without repetition: for Basic the six
\* pytest packages in the fixed order; for the other two types those six in the
\* same relative order, with jupyter for DataAnalytics and with fastapi, uvicorn
\* and httpx for ApiService, and nothing else.
C10_RequirementsContent ==
    \A w \in Threads :
        pc[w] \in {"vscode", "install", "open", "enable_create"} =>
            LET data == RequirementsOf(w)
                names == NamesOf(data)
            IN /\ fs[rel(project_dir[w], <<"requirements.txt">>)].kind = "file"
               /\ WellFormed(data)
               /\ Cardinality(Range(names)) = Len(names)
               /\ Only(names, Range(SIX)) = SIX
               /\ project_type = 1 => names = SIX
               /\ project_type = 2 => Range(names) = Range(SIX) \cup {"jupyter"}
               /\ project_type = 3 => Range(names) = Range(SIX) \cup {"fastapi", "uvicorn", "httpx"}
C10_Witness ==
    \E w \in Threads : pc[w] = "install" /\ project_type = 3 /\ Len(RequirementsOf(w)) = 18

\* The literal lines of a generated text.
Texts(data) == {data[i].text : i \in DOMAIN data}
ComposeOf(w) == fs[rel(project_dir[w], <<"docker-compose.yml">>)].data
ReadmeOf(w) == fs[rel(project_dir[w], <<"README.md">>)].data
\* The ports each artifact maps.
ComposePorts(data) ==
    (IF "      - 8888:8888" \in Texts(data) THEN {8888} ELSE {})
    \cup (IF "      - 8000:8000" \in Texts(data) THEN {8000} ELSE {})
ReadmePorts(data) ==
    (IF "docker run -p 8888:8888 {project_name}" \in Texts(data) THEN {8888} ELSE {})
    \cup (IF "docker run -p 8000:8000 {project_name}" \in Texts(data) THEN {8000} ELSE {})
\* The port assigned to each type: 8888 to DataAnalytics, 8000 to ApiService,
\* none to Basic.
AssignedPorts(type) == IF type = 2 THEN {8888} ELSE IF type = 3 THEN {8000} ELSE {}

\* C11: once the template of a run is generated, its docker-compose.yml and
\* the docker-run line of its README.md map the port assigned to the run's
\* type and no other (8888 for DataAnalytics, 8000 for ApiService, none for
\* Basic, whose README line is the plain "docker run --rm"); the compose file
\* has a ports section exactly when a port is mapped, and the two artifacts
\* never disagree.
C11_DockerPortByType ==
    \A w \in Threads :
        pc[w] \in {"vscode", "install", "open", "enable_create"} =>
            LET compose == ComposeOf(w)
                readme == ReadmeOf(w)
            IN /\ ComposePorts(compose) = AssignedPorts(project_type)
               /\ ReadmePorts(readme) = AssignedPorts(project_type)
               /\ ComposePorts(compose) = ReadmePorts(readme)
               /\ ("    ports:" \in Texts(compose)) <=> (AssignedPorts(project_type) # {})
               /\ ("docker run --rm {project_name}" \in Texts(readme)) <=> (project_type = 1)
C11_Witness ==
    \E w \in Threads :
        /\ pc[w] = "install"
        /\ project_type = 2
        /\ ComposePorts(ComposeOf(w)) = {8888}
        /\ ReadmePorts(ReadmeOf(w)) = {8888}

\* The progress values a run has emitted so far, in order.
IsProgress(s) == s.sig = "progress"
Values(w) ==
    LET q == SelectSeq(emitted[w], IsProgress)
    IN [i \in 1..Len(q) |-> q[i].value]
\* How many of the nine steps the run has completed: every step it entered
\* after the Validator, but for the one an exception interrupted.
StepsDone(w) ==
    LET n == IF Aborting(w) THEN Len(steps[w]) - 2 ELSE Len(steps[w]) - 1
    IN IF n < 0 THEN 0 ELSE n
ProgressOfRun(w) ==
    LET v == Values(w)
        n == Len(v)
    IN /\ n = StepsDone(w)
       /\ \A i \in 1..n : v[i] \in 0..100
       /\ \A i \in 1..(n - 1) : v[i] < v[i + 1]
       /\ \A i \in 1..n : i <= 8 => (9 * v[i] <= 100 * i /\ 100 * i < 9 * (v[i] + 1))
       /\ (100 \in Range(v)) => "EditorLauncher" \in Range(steps[w])
       /\ (100 \in Range(v)) <=> Completed(w)
       /\ Aborted(w) => /\ emitted[w] # <<>>
                        /\ Last(emitted[w]) = Out("ERROR", exc[w])
\* The statements the handler has left after its ERROR line emit nothing.
SilentAfterError(w) ==
    (pc[w] \in {"except_create", "except_cancel"} /\ Moves(w)) => queue' = queue

\* C12: the progress values a run emits are strictly increasing integers in
\* 0..100, one per completed step; the value after the k-th completed step
\* (k = 1..8) is the integer part of 100*k/9; 100 has been emitted exactly when
\* the run is Completed, which is after the Editor Launcher was attempted; an
\* Aborted run has not emitted 100, the ERROR line of its handler is the last
\* thing it has emitted, and the rest of the handler emits nothing.
C12_ProgressValues ==
    [][\A w \in Threads : ProgressOfRun(w) /\ ProgressOfRun(w)' /\ SilentAfterError(w)]_vars
C12_Witness ==
    \E w \in Threads : Completed(w) /\ Values(w) = <<11, 22, 33, 44, 55, 66, 77, 88, 100>>

====
